---- MODULE Spec2Model ----
(***************************************************************************)
(* Model of the SQS worker of src/worker.go: one producer goroutine that   *)
(* polls the queue and feeds a buffered channel, Consumers consumer        *)
(* goroutines that run the Handler under a reusable timer (Exec), forward  *)
(* the result and delete the message, and the Run / Close lifecycle.       *)
(***************************************************************************)
EXTENDS Integers, Sequences, FiniteSets, TLC

\* ---- bounds of the model ----
\* number of consumer goroutines Run starts (Worker.Consumers)
Consumers == 2
\* consumers take at most the first MaxDeq fetched messages off the channel
MaxDeq == 2
\* FullSpec: messages the queue yields beyond those that fill the channel and the consumers
MaxExtra == 2

\* ---- program constants ----
\* capacity of the hand-off channel, make(chan *sqs.Message, 10)
ChanCap == 10
\* ReceiveMessageInput.MaxNumberOfMessages
MaxNumberOfMessages == 1

\* Spec: the queue yields MaxDeq messages. FullSpec: enough to fill the channel
FullFetch == ChanCap + Consumers + MaxExtra

Workers == 1..Consumers
\* a nil *sqs.Message (what a receive on the closed channel yields)
NilMsg == 0
\* a nil []byte
NilBytes == 0
NoErr == "nil"
\* the bytes the Handler computes from message m
Payload(m) == 100 + m

VARIABLES
  runpc,      \* Run: "init" (not called), "running" (in wg.Wait), "returned"; "dead" after a panic
  done,       \* w.done is closed
  ctxDone,    \* cancel() has been called on the context of Run
  panicked,   \* "none", or the reason the process died of a panic
  callbackSet, \* w.Callback != nil
  ppc,        \* producer goroutine: "idle", "select", "send", "closed"
  pmsg,       \* the message the producer holds in 'out <- message'
  fetched,    \* number of messages received from the queue so far
  messages,   \* content of the buffered channel
  pc,         \* consumer goroutine: "idle", "select", "exec", "wait", "send", "delete", "exited"
  msg,        \* consumer local msg
  timer,      \* hp.Timer: "running", "fired" (value in Timer.C), "drained" (expired, value received)
  hpResult,   \* hp.Result, the consumerDone shared by the handler goroutines of a consumer
  handlers,   \* handler goroutines of each consumer: [m, st], st "running" or "sending" (blocked on hp.Done)
  resFrom,    \* the message whose handler goroutine delivered the value Exec received on hp.Done
  sendBody,   \* sendInput.MessageBody
  delHandle,  \* deleteInput.ReceiptHandle
  armed,      \* what the value of hp.Timer stems from: "stale" (NewTimer or an Exec that has
              \* returned), "reset" (the Reset of the running Exec), "drained" (the same,
              \* after that Exec received a left-over value from Timer.C)
  hist        \* per fetched message, the calls made and the errors logged for it, in order

vars == <<runpc, done, ctxDone, panicked, callbackSet, ppc, pmsg, fetched, messages, pc, msg,
          timer, hpResult, handlers, resFrom, sendBody, delHandle, armed, hist>>

lifeVars == <<runpc, done, ctxDone, panicked, callbackSet>>
prodVars == <<ppc, pmsg, fetched, messages>>
consVars == <<pc, msg, timer, hpResult, handlers, resFrom, sendBody, delHandle, armed, hist>>

Alive == panicked = "none"

\* a call or outcome: its kind e, the consumer w, the bytes or handle x passed or
\* returned, and the message whose handler goroutine produced the value (from)
Ev(e, w, x, from) == [e |-> e, w |-> w, x |-> x, from |-> from]

\* record a call made for message m (a nil message has no history)
Record(h, m, ev) == IF m \in DOMAIN h THEN [h EXCEPT ![m] = Append(@, ev)] ELSE h

Init ==
  /\ runpc = "init"
  /\ done = FALSE
  /\ ctxDone = FALSE
  /\ panicked = "none"
  /\ callbackSet \in BOOLEAN
  /\ ppc = "idle"
  /\ pmsg = NilMsg
  /\ fetched = 0
  /\ messages = <<>>
  /\ pc = [w \in Workers |-> "idle"]
  /\ msg = [w \in Workers |-> NilMsg]
  /\ timer = [w \in Workers |-> "running"]
  /\ hpResult = [w \in Workers |-> [Result |-> NilBytes, Err |-> NoErr]]
  /\ handlers = [w \in Workers |-> <<>>]
  /\ resFrom = [w \in Workers |-> NilMsg]
  /\ sendBody = [w \in Workers |-> NilBytes]
  /\ delHandle = [w \in Workers |-> NilMsg]
  /\ armed = [w \in Workers |-> "stale"]
  /\ hist = [m \in 1..MaxDeq |-> <<>>]

\* an unrecovered panic ends the process: every goroutine and its memory is gone; the
\* calls already made to the queue (hist) remain
Crash(reason) ==
  /\ panicked' = reason
  /\ runpc' = "dead"
  /\ ppc' = "dead"
  /\ pc' = [w \in Workers |-> "dead"]
  /\ ctxDone' = FALSE
  /\ pmsg' = NilMsg
  /\ fetched' = 0
  /\ messages' = <<>>
  /\ msg' = [w \in Workers |-> NilMsg]
  /\ timer' = [w \in Workers |-> "running"]
  /\ hpResult' = [w \in Workers |-> [Result |-> NilBytes, Err |-> NoErr]]
  /\ handlers' = [w \in Workers |-> <<>>]
  /\ resFrom' = [w \in Workers |-> NilMsg]
  /\ sendBody' = [w \in Workers |-> NilBytes]
  /\ delHandle' = [w \in Workers |-> NilMsg]
  /\ armed' = [w \in Workers |-> "stale"]
  /\ UNCHANGED callbackSet

\* ---- lifecycle ----

\* Run: start the producer, the cancel watcher and the consumers (each with a new
\* timer, getHandlerParams), then wg.Wait
RunStart ==
  /\ Alive
  /\ runpc = "init"
  /\ runpc' = "running"
  /\ ppc' = "select"
  /\ pc' = [w \in Workers |-> "select"]
  /\ timer' = [w \in Workers |-> "running"]
  /\ UNCHANGED <<done, ctxDone, panicked, callbackSet, pmsg, fetched, messages, msg, hpResult,
                 handlers, resFrom, sendBody, delHandle, armed, hist>>

\* Close: close(w.done); closing a closed channel panics
Close ==
  /\ Alive
  /\ IF done
       THEN Crash("close of closed channel") /\ UNCHANGED <<done, hist>>
       ELSE done' = TRUE /\ UNCHANGED <<runpc, ctxDone, panicked, callbackSet, prodVars, consVars>>

\* the goroutine of Run that waits for w.done and cancels the context
CancelWatcher ==
  /\ Alive
  /\ runpc # "init"
  /\ done
  /\ ~ctxDone
  /\ ctxDone' = TRUE
  /\ UNCHANGED <<runpc, done, panicked, callbackSet, prodVars, consVars>>

\* wg.Wait: the counter is zero once every consumer goroutine has run its wg.Done
WaitDoneAny == \E w \in Workers : pc[w] = "exited"

WaitDone == \A w \in Workers : pc[w] = "exited"

\* wg.Wait returns when every consumer has returned
RunReturn ==
  /\ Alive
  /\ runpc = "running"
  /\ WaitDone
  /\ runpc' = "returned"
  /\ UNCHANGED <<done, ctxDone, panicked, callbackSet, prodVars, consVars>>

\* ---- producer ----

\* select case <-ctx.Done(): return; then Run's goroutine closes the channel
ProducerCancel ==
  /\ Alive
  /\ ppc = "select"
  /\ ctxDone
  /\ ppc' = "closed"
  /\ UNCHANGED <<lifeVars, pmsg, fetched, messages, consVars>>

\* select default: one ReceiveMessage call: an error (logged), no message, or one
\* message; the queue yields at most limit messages
ProducerFetch(limit) ==
  /\ Alive
  /\ ppc = "select"
  /\ ~ctxDone
  /\ \E r \in {"err", "empty", "msg"} :
       IF r = "msg"
         THEN /\ fetched < limit
              /\ fetched' = fetched + MaxNumberOfMessages
              /\ pmsg' = fetched + 1
              /\ ppc' = "send"
         ELSE UNCHANGED <<ppc, pmsg, fetched>>
  /\ UNCHANGED <<lifeVars, messages, consVars>>

\* a send on the buffered channel proceeds when the buffer has room
CanSendUnbounded(ch) == TRUE

CanSend(ch) == Len(ch) < ChanCap

\* out <- message: blocks while the channel is full
ProducerSend ==
  /\ Alive
  /\ ppc = "send"
  /\ CanSend(messages)
  /\ messages' = Append(messages, pmsg)
  /\ pmsg' = NilMsg
  /\ ppc' = "select"
  /\ UNCHANGED <<lifeVars, fetched, consVars>>

\* ---- consumer ----

\* select case <-ctx.Done(): return
ConsumerCancel(w) ==
  /\ Alive
  /\ pc[w] = "select"
  /\ ctxDone
  /\ pc' = [pc EXCEPT ![w] = "exited"]
  /\ UNCHANGED <<lifeVars, prodVars, armed, msg, timer, hpResult, handlers, resFrom, sendBody,
                 delHandle, hist>>

\* a receive takes the first message out of the channel buffer
ChanRestPeek(ch) == ch

ChanRest(ch) == Tail(ch)

\* select case msg := <-in: a buffered message, or nil once the channel is closed and empty
ConsumerRecv(w) ==
  /\ Alive
  /\ pc[w] = "select"
  /\ \/ /\ messages # <<>>
        /\ Head(messages) <= MaxDeq
        /\ msg' = [msg EXCEPT ![w] = Head(messages)]
        /\ messages' = ChanRest(messages)
        /\ hist' = Record(hist, Head(messages), Ev("recv", w, Head(messages), Head(messages)))
     \/ /\ messages = <<>>
        /\ ppc = "closed"
        /\ msg' = [msg EXCEPT ![w] = NilMsg]
        /\ UNCHANGED <<messages, hist>>
  /\ pc' = [pc EXCEPT ![w] = "exec"]
  /\ UNCHANGED <<lifeVars, ppc, pmsg, fetched, armed, timer, hpResult, handlers, resFrom, sendBody,
                 delHandle>>

\* if !hp.Timer.Stop() { <-hp.Timer.C }: Stop reports false for an expired timer, and
\* the receive then blocks for ever when the value was already received (by the
\* select of the Exec that timed out)
TimerStopDrainNonBlocking(t) == TRUE

TimerStopDrain(t) == t # "drained"

\* Reset without the receive of lines 111-113: a value left in Timer.C stays there
TimerResetNoDrain(t) ==
  IF t = "fired" THEN [timer |-> "fired", armed |-> "stale"]
                 ELSE [timer |-> "running", armed |-> "reset"]

\* the timer after Stop, the receive of a left-over value, and Reset(w.Timeout)
TimerReset(t) ==
  [timer |-> "running", armed |-> IF t = "fired" THEN "drained" ELSE "reset"]

\* Exec, up to the select: stop and drain the timer, Reset it, start the handler goroutine
ExecStart(w) ==
  /\ Alive
  /\ pc[w] = "exec"
  /\ TimerStopDrain(timer[w])
  /\ timer' = [timer EXCEPT ![w] = TimerReset(timer[w]).timer]
  /\ armed' = [armed EXCEPT ![w] = TimerReset(timer[w]).armed]
  /\ handlers' = [handlers EXCEPT ![w] = Append(@, [m |-> msg[w], st |-> "running"])]
  /\ pc' = [pc EXCEPT ![w] = "wait"]
  /\ hist' = Record(hist, msg[w], Ev("start", w, msg[w], msg[w]))
  /\ UNCHANGED <<lifeVars, prodVars, msg, hpResult, resFrom, sendBody, delHandle>>

\* the timer of a consumer expires: a value is put in Timer.C. Only Exec looks at the
\* timer, so an expiry during the forward or the delete is taken at the next select
TimerFire(w) ==
  /\ Alive
  /\ pc[w] \in {"select", "wait"}
  /\ timer[w] = "running"
  /\ timer' = [timer EXCEPT ![w] = "fired"]
  /\ UNCHANGED <<lifeVars, prodVars, armed, pc, msg, hpResult, handlers, resFrom, sendBody, delHandle,
                 hist>>

\* a handler goroutine: w.Handler returns; hp.Result is written; then hp.Done <- hp.Result
HandlerReturn(w, i) ==
  /\ Alive
  /\ i \in DOMAIN handlers[w]
  /\ handlers[w][i].st = "running"
  /\ \E ok \in BOOLEAN :
       hpResult' = [hpResult EXCEPT ![w] =
                      IF ok THEN [Result |-> Payload(handlers[w][i].m), Err |-> NoErr]
                            ELSE [Result |-> NilBytes, Err |-> "HandlerError"]]
  /\ handlers' = [handlers EXCEPT ![w][i].st = "sending"]
  /\ UNCHANGED <<lifeVars, prodVars, armed, pc, msg, timer, resFrom, sendBody, delHandle, hist>>

RemoveAt(s, i) == SubSeq(s, 1, i - 1) \o SubSeq(s, i + 1, Len(s))

ContinueReturns(w) ==
  /\ pc' = [pc EXCEPT ![w] = "exited"]
  /\ msg' = [msg EXCEPT ![w] = NilMsg]
  /\ resFrom' = [resFrom EXCEPT ![w] = NilMsg]

\* 'continue': back to the select of the consumer loop; msg goes out of scope
Continue(w) ==
  /\ pc' = [pc EXCEPT ![w] = "select"]
  /\ msg' = [msg EXCEPT ![w] = NilMsg]
  /\ resFrom' = [resFrom EXCEPT ![w] = NilMsg]

\* consumer line 146, if err != nil, after Exec
ExecFailedOnlyTimeout(err) == err = "HandlerTimeout"

ExecFailedOnlyHandler(err) == err = "HandlerError"

ExecFailed(err) == err # NoErr

\* consumer line 153, if err != nil, after sendMessage
SendFailedAlways(err) == TRUE

SendFailedNever(err) == FALSE

SendFailed(err) == err # NoErr

\* consumer lines 143-151, after Exec returned (result, err) for msg[w], the value
\* coming from the handler goroutine of message from (NilMsg on a timeout)
\* the call w.Callback(result, err), recorded with the error it was passed
CbKind == [nil |-> "cb(nil)", HandlerError |-> "cb(HandlerError)",
           HandlerTimeout |-> "cb(HandlerTimeout)"]

CallbackOnSuccess(err) == callbackSet /\ err = NoErr

\* if w.Callback != nil { w.Callback(result, err) }
CallbackCalled(err) == callbackSet

\* the consumer loop after Exec returned (result, err): the Callback, then on error log
\* and continue, else the body of the forward is string(result)
AfterExec(w, result, err, from) ==
  /\ hist' = LET h == Record(hist, msg[w], Ev(IF err = NoErr THEN "ok" ELSE err, w, result, from))
             IN  IF CallbackCalled(err)
                   THEN Record(h, msg[w], Ev(CbKind[err], w, result, from))
                   ELSE h
  /\ armed' = [armed EXCEPT ![w] = "stale"]
  /\ IF ExecFailed(err)
    THEN /\ Continue(w)
         /\ UNCHANGED sendBody
    ELSE /\ sendBody' = [sendBody EXCEPT ![w] = result]
         /\ pc' = [pc EXCEPT ![w] = "send"]
         /\ resFrom' = [resFrom EXCEPT ![w] = from]
         /\ UNCHANGED msg

\* Exec select case result := <-hp.Done
ExecDone(w, i) ==
  /\ Alive
  /\ pc[w] = "wait"
  /\ i \in DOMAIN handlers[w]
  /\ handlers[w][i].st = "sending"
  /\ handlers' = [handlers EXCEPT ![w] = RemoveAt(@, i)]
  /\ AfterExec(w, hpResult[w].Result, hpResult[w].Err, handlers[w][i].m)
  /\ UNCHANGED <<lifeVars, prodVars, timer, hpResult, delHandle>>

\* Exec select case <-hp.Timer.C: return nil, &HandlerTimeout{}
ExecTimeout(w) ==
  /\ Alive
  /\ pc[w] = "wait"
  /\ timer[w] = "fired"
  /\ timer' = [timer EXCEPT ![w] = "drained"]
  /\ AfterExec(w, NilBytes, "HandlerTimeout", NilMsg)
  /\ UNCHANGED <<lifeVars, prodVars, hpResult, handlers, delHandle>>

\* sendMessage(sendInput): nil when no QueueOutUrl is set or Queue.SendMessage succeeded,
\* else its error; then deleteInput.ReceiptHandle = msg.ReceiptHandle (a nil msg panics)
SendMessage(w) ==
  /\ Alive
  /\ pc[w] = "send"
  /\ \E err \in {NoErr, "SendError"} :
       /\ hist' = Record(hist, msg[w],
                         Ev(IF err = NoErr THEN "fwd" ELSE err, w, sendBody[w], resFrom[w]))
       /\ IF SendFailed(err)
         THEN /\ Continue(w)
              /\ UNCHANGED <<lifeVars, prodVars, armed, timer, hpResult, handlers, sendBody, delHandle>>
         ELSE /\ IF msg[w] = NilMsg
                   THEN Crash("nil pointer dereference") /\ UNCHANGED done
                   ELSE /\ delHandle' = [delHandle EXCEPT ![w] = msg[w]]
                        /\ pc' = [pc EXCEPT ![w] = "delete"]
                        /\ UNCHANGED <<lifeVars, prodVars, armed, msg, timer, hpResult, handlers,
                                       resFrom, sendBody>>

\* deleteMessage(deleteInput)
DeleteMessage(w) ==
  /\ Alive
  /\ pc[w] = "delete"
  /\ \E err \in {NoErr, "DeleteError"} :
       hist' = Record(hist, delHandle[w],
                      Ev(IF err = NoErr THEN "ack" ELSE err, w, delHandle[w], msg[w]))
  /\ Continue(w)
  /\ UNCHANGED <<lifeVars, prodVars, armed, timer, hpResult, handlers, sendBody, delHandle>>

\* one step of the program, the queue yielding at most limit messages
Step(limit) ==
  \/ RunStart
  \/ Close
  \/ CancelWatcher
  \/ RunReturn
  \/ ProducerCancel
  \/ ProducerFetch(limit)
  \/ ProducerSend
  \/ \E w \in Workers : ConsumerCancel(w)
  \/ \E w \in Workers : ConsumerRecv(w)
  \/ \E w \in Workers : ExecStart(w)
  \/ \E w \in Workers : TimerFire(w)
  \/ \E w \in Workers : \E i \in 1..Len(handlers[w]) : HandlerReturn(w, i)
  \/ \E w \in Workers : \E i \in 1..Len(handlers[w]) : ExecDone(w, i)
  \/ \E w \in Workers : ExecTimeout(w)
  \/ \E w \in Workers : SendMessage(w)
  \/ \E w \in Workers : DeleteMessage(w)

Next == Step(MaxDeq)

Spec == Init /\ [][Next]_vars

FullNext == Step(FullFetch)

\* the same program with a queue that can fill the channel
FullSpec == Init /\ [][FullNext]_vars

\* Scheduling: every goroutine that can take a step eventually takes one, timers
\* expire, every Handler call and every queue call returns, and a select whose
\* ctx.Done() case is ready again and again eventually takes it (Go picks among the
\* ready cases at random). Nobody is obliged to call Close.
Fairness ==
  /\ WF_vars(RunStart)
  /\ WF_vars(CancelWatcher)
  /\ WF_vars(RunReturn)
  /\ WF_vars(ProducerCancel)
  /\ WF_vars(ProducerFetch(MaxDeq))
  /\ WF_vars(ProducerSend)
  /\ \A w \in Workers :
       /\ SF_vars(ConsumerCancel(w))
       /\ WF_vars(ConsumerRecv(w))
       /\ WF_vars(ExecStart(w))
       /\ WF_vars(TimerFire(w))
       /\ WF_vars(\E i \in 1..Len(handlers[w]) : HandlerReturn(w, i))
       /\ WF_vars(\E i \in 1..Len(handlers[w]) : ExecDone(w, i))
       /\ WF_vars(ExecTimeout(w))
       /\ WF_vars(SendMessage(w))
       /\ WF_vars(DeleteMessage(w))

FairSpec == Spec /\ Fairness

\* ---- reading the history ----

Msgs == DOMAIN hist

\* deleteMessage was called (the Acknowledge of the queue), whatever it returned
IsDelete(ev) == ev.e \in {"ack", "DeleteError"}

Has(m, kind) == \E i \in DOMAIN hist[m] : hist[m][i].e = kind

Deleted(m) == \E i \in DOMAIN hist[m] : IsDelete(hist[m][i])

LastEv(m) == hist[m][Len(hist[m])]

\* ---- claims ----

\* C1: every deleteMessage call for a message is preceded, in the same consumer and
\* the same loop iteration (no other receive in between), by a sendMessage that
\* returned nil and that sent the output Exec returned for that message.
C1_ForwardBeforeAck ==
  \A m \in Msgs : \A i \in DOMAIN hist[m] :
    IsDelete(hist[m][i]) =>
      \E j \in 1..(i - 1) :
        /\ hist[m][j].e = "fwd"
        /\ \A k \in j..i : hist[m][k].w = hist[m][i].w /\ hist[m][k].e # "recv"
        /\ \E k \in 1..(j - 1) :
             /\ hist[m][k].e = "ok"
             /\ hist[m][k].w = hist[m][i].w
             /\ hist[m][k].x = hist[m][j].x

\* C1 witness: a message was forwarded and then deleted with success
C1_Witness ==
  \E m \in Msgs : Has(m, "fwd") /\ Has(m, "ack")

\* C2: a message whose Handler returned an error is never passed to deleteMessage,
\* by any consumer.
C2_NoAckAfterHandlerError ==
  \A m \in Msgs : Has(m, "HandlerError") => ~Deleted(m)

\* C2 witness: the Handler failed for a message and its consumer is back at the select
C2_Witness ==
  \E m \in Msgs :
    /\ Has(m, "HandlerError")
    /\ pc[LastEv(m).w] = "select"

\* C3: when the timer fires first, Exec returns HandlerTimeout with a nil payload,
\* and the message is neither forwarded nor passed to deleteMessage.
C3_TimeoutNoAck ==
  \A m \in Msgs : \A i \in DOMAIN hist[m] :
    hist[m][i].e = "HandlerTimeout" =>
      /\ hist[m][i].x = NilBytes
      /\ ~Deleted(m)
      /\ ~Has(m, "fwd")
      /\ ~Has(m, "ok")

\* C3 witness: Exec timed out for a message and its consumer is back at the select
C3_Witness ==
  \E m \in Msgs :
    /\ Has(m, "HandlerTimeout")
    /\ pc[LastEv(m).w] = "select"

\* C4: a consumer never blocks for ever inside Exec: once it holds a message
\* (also after an earlier timeout) it gets to start the handler for it.
C4_ExecNeverBlocks ==
  \A w \in Workers : pc[w] = "exec" => ENABLED ExecStart(w)

\* C5: once Close has been called while Run is executing, Run eventually returns
\* (or the process has ended).
C5_RunReturnsAfterClose ==
  (done /\ runpc = "running") ~> (runpc \in {"returned", "dead"})

\* C6: a second call of Close does not panic.
C6_CloseTwiceNoPanic ==
  panicked # "close of closed channel"

\* C7: the value an Exec receives on hp.Done always comes from the handler goroutine
\* started for the message of that Exec: a late result is never taken as the
\* outcome of another message, so what is forwarded and deleted rests on the
\* message's own handler.
C7_LateResultIgnored ==
  /\ \A m \in Msgs : \A i \in DOMAIN hist[m] :
       hist[m][i].e \in {"ok", "HandlerError", "fwd", "SendError"} => hist[m][i].from = m
  /\ \A w \in Workers : pc[w] \in {"send", "delete"} => resFrom[w] = msg[w]

\* C7 witness: the handler of a timed-out message has returned (its result is
\* waiting on hp.Done) and its consumer has received a later message
C7_Witness ==
  \E w \in Workers : \E i \in DOMAIN handlers[w] :
    /\ handlers[w][i].st = "sending"
    /\ handlers[w][i].m \in Msgs
    /\ Has(handlers[w][i].m, "HandlerTimeout")
    /\ msg[w] \in Msgs
    /\ msg[w] # handlers[w][i].m

\* C8: a message whose forward failed is never passed to deleteMessage, and its
\* consumer has left the iteration (it holds the message no more).
C8_NoAckAfterSendError ==
  \A m \in Msgs :
    Has(m, "SendError") =>
      /\ ~Deleted(m)
      /\ LastEv(m).e = "SendError"
      /\ \A w \in Workers : msg[w] # m

\* C8 witness: after a failed forward the consumer has received the next message
C8_Witness ==
  \E m \in Msgs :
    /\ Has(m, "SendError")
    /\ msg[LastEv(m).w] \in Msgs
    /\ pc[LastEv(m).w] = "wait"

\* messages fetched and not yet deleted or dropped: held by the producer, in the
\* channel, or held by a consumer in its iteration
Holding == {w \in Workers : pc[w] \in {"exec", "wait", "send", "delete"} /\ msg[w] # NilMsg}

InFlight == (IF pmsg # NilMsg THEN 1 ELSE 0) + Len(messages) + Cardinality(Holding)

\* consumers that Run started and that have not returned
ActiveWorkers == {w \in Workers : pc[w] \in {"select", "exec", "wait", "send", "delete"}}

\* C9 as stated: in-flight messages <= channel capacity + active consumers.
C9_InFlightBound ==
  InFlight <= ChanCap + Cardinality(ActiveWorkers)

\* C9 amended: in-flight messages <= channel capacity + active consumers + the
\* MaxNumberOfMessages messages the producer holds while it sends them.
C9_InFlightBoundAmended ==
  InFlight <= ChanCap + Cardinality(ActiveWorkers) + MaxNumberOfMessages

\* C9 witness: the channel is full, every consumer holds a message and the producer
\* holds one more
C9_Witness ==
  /\ Len(messages) = ChanCap
  /\ Holding = Workers
  /\ pmsg # NilMsg

\* messages fetched and not yet received by a consumer
Pending == (IF pmsg # NilMsg THEN 1 ELSE 0) + Len(messages)

\* C10: the producer holding a message starts no fetch; with a full channel its send
\* is blocked; the messages fetched and not yet received never exceed the channel
\* capacity plus one batch.
C10_Backpressure ==
  /\ Len(messages) <= ChanCap
  /\ Pending <= ChanCap + MaxNumberOfMessages
  /\ ppc = "send" => ~ENABLED ProducerFetch(FullFetch)
  /\ (ppc = "send" /\ Len(messages) = ChanCap) => ~ENABLED ProducerSend

\* C10 witness: no consumer is receiving (each waits for its Handler), the channel is
\* full, the producer is blocked in its send and the queue has more messages
C10_Witness ==
  /\ \A w \in Workers : pc[w] = "wait"
  /\ Len(messages) = ChanCap
  /\ ppc = "send"
  /\ fetched < FullFetch
  /\ ~ctxDone

\* number of calls of kind recorded for message m
Count(m, kind) == Cardinality({i \in DOMAIN hist[m] : hist[m][i].e = kind})

\* handler goroutines (running or blocked on hp.Done) started for message m
HandlersOf(m) ==
  UNION {{<<w, i>> : i \in {j \in DOMAIN handlers[w] : handlers[w][j].m = m}} : w \in Workers}

\* C11: a fetched message is received from the channel by at most one consumer, and
\* the Handler is started for it at most once, by that consumer.
C11_ReceivedOnce ==
  \A m \in Msgs :
    /\ Count(m, "recv") <= 1
    /\ Count(m, "start") <= 1
    /\ \A i, j \in DOMAIN hist[m] : hist[m][i].w = hist[m][j].w
    /\ Cardinality({w \in Workers : msg[w] = m}) <= 1
    /\ Cardinality(HandlersOf(m)) <= 1

\* C11 witness: two consumers run the Handler at once, each for its own message
C11_Witness ==
  /\ \A w \in Workers : pc[w] = "wait" /\ msg[w] \in Msgs
  /\ \A m \in Msgs : Count(m, "start") = 1

\* C13: when Run has returned, every consumer goroutine it started has returned.
C13_RunWaitsForConsumers ==
  runpc = "returned" => \A w \in Workers : pc[w] = "exited"

\* C13 witness: Run has returned
C13_Witness ==
  runpc = "returned"

\* the errors the consumer loop logs
ErrKinds == {"HandlerError", "HandlerTimeout", "SendError", "DeleteError"}

\* C14: while Close has not been called no goroutine of Run ends, whatever errors
\* occur, and Run returns only after Close; the step that meets an error leaves its
\* consumer at the select of its loop.
C14_NoErrorFatal ==
  /\ []((~done /\ runpc = "running") =>
          /\ ppc \in {"select", "send"}
          /\ \A w \in Workers : pc[w] \in {"select", "exec", "wait", "send", "delete"})
  /\ [](runpc = "returned" => done)
  /\ [][\A m \in Msgs :
          \A i \in (Len(hist[m]) + 1)..Len(hist'[m]) :
            hist'[m][i].e \in ErrKinds => pc'[hist'[m][i].w] = "select"]_vars

\* C14 witness: Close was not called, a message ended in an error, and the consumer
\* that met the error has received another message
C14_Witness ==
  /\ ~done
  /\ \E m \in Msgs :
       /\ hist[m] # <<>>
       /\ \E i \in DOMAIN hist[m] : hist[m][i].e \in ErrKinds
       /\ msg[LastEv(m).w] \in Msgs
       /\ pc[LastEv(m).w] = "wait"

\* sendMessage was called for a message, whatever it returned
IsSend(ev) == ev.e \in {"fwd", "SendError"}

\* C15: sendMessage is called only after Exec returned without error for the same
\* message, and the body sent is the payload the Handler returned for that message.
C15_ForwardOwnPayload ==
  /\ \A m \in Msgs : \A i \in DOMAIN hist[m] :
       IsSend(hist[m][i]) =>
         /\ hist[m][i].x = Payload(m)
         /\ hist[m][i].from = m
         /\ \E k \in 1..(i - 1) : hist[m][k].e = "ok" /\ hist[m][k].x = hist[m][i].x
         /\ ~Has(m, "HandlerError")
         /\ ~Has(m, "HandlerTimeout")
  /\ \A w \in Workers :
       pc[w] = "send" => sendBody[w] = Payload(msg[w]) /\ resFrom[w] = msg[w]

\* C15 witness: two consumers are about to forward, each its own payload, and one
\* message has been forwarded
C15_Witness ==
  \E m \in Msgs : \E w \in Workers :
    /\ Has(m, "fwd")
    /\ pc[w] = "send"
    /\ msg[w] \in Msgs
    /\ msg[w] # m

\* C17: after cancellation the producer is never blocked for good: when every
\* consumer has returned, its send can still complete (so that it reaches its
\* select, returns, and the channel is closed).
C17_ProducerReturns ==
  (ctxDone /\ ppc = "send" /\ WaitDone) => ENABLED ProducerSend

\* the handler goroutine of a timed-out Exec has returned from the Handler and is
\* at hp.Done <- hp.Result
OrphanSending(w) ==
  \E i \in DOMAIN handlers[w] :
    /\ handlers[w][i].st = "sending"
    /\ ~(pc[w] = "wait" /\ msg[w] = handlers[w][i].m)

\* C18: the handler goroutine of a timed-out Exec ends once its Handler has returned.
C18_OrphanTerminates ==
  \A w \in Workers : OrphanSending(w) ~> (handlers[w] = <<>>)

\* C19: a consumer at its select after cancel() takes no further message.
C19_NoRecvAfterCancel ==
  \A w \in Workers : (ctxDone /\ pc[w] = "select") => ~ENABLED ConsumerRecv(w)

\* the program while Close is not called: Run, the producer and the consumers; the
\* steps that wait for cancellation are never enabled
OpenNext ==
  \/ RunStart
  \/ ProducerFetch(MaxDeq)
  \/ ProducerSend
  \/ \E w \in Workers : ConsumerRecv(w)
  \/ \E w \in Workers : ExecStart(w)
  \/ \E w \in Workers : TimerFire(w)
  \/ \E w \in Workers : \E i \in 1..Len(handlers[w]) : HandlerReturn(w, i)
  \/ \E w \in Workers : \E i \in 1..Len(handlers[w]) : ExecDone(w, i)
  \/ \E w \in Workers : ExecTimeout(w)
  \/ \E w \in Workers : SendMessage(w)
  \/ \E w \in Workers : DeleteMessage(w)

\* every goroutine that can take a step eventually takes one; Close is not called
OpenSpec == Init /\ [][OpenNext]_vars /\ Fairness

\* every failure C12 excludes leaves its mark in the state for good: Close sets done,
\* a Handler error is in hp.Result and then in the history, a timeout leaves the timer
\* expired and received, and a failed forward or acknowledge is in the history
NoFailure ==
  /\ ~done
  /\ \A w \in Workers : hpResult[w].Err = NoErr /\ timer[w] # "drained"
  /\ \A m \in Msgs :
       ~Has(m, "HandlerError") /\ ~Has(m, "SendError") /\ ~Has(m, "DeleteError")

\* deleteMessage succeeded at most once for m, with the handle of m, and no error
\* was logged for m
AckedRight(m) ==
  /\ Count(m, "ack") <= 1
  /\ \A i \in DOMAIN hist[m] :
       /\ hist[m][i].e = "ack" => hist[m][i].x = m /\ hist[m][i].from = m
       /\ hist[m][i].e \notin ErrKinds

ExecKinds == {"ok", "HandlerError", "HandlerTimeout"}

\* the error Exec returned, from the outcome recorded
ErrOf(e) == IF e = "ok" THEN NoErr ELSE e

IsCb(ev) == ev.e \in {CbKind[k] : k \in DOMAIN CbKind}

NotCb(ev) == ~IsCb(ev)

CbCount(m) == Cardinality({i \in DOMAIN hist[m] : IsCb(hist[m][i])})

\* the Callback is called right after each outcome of Exec, with that outcome, at
\* most once per message and before the forward and the acknowledge; without the
\* calls of the Callback the history is one a worker without Callback produces:
\* after an error nothing more, after a success the forward
CallbackSafe ==
  \A m \in Msgs :
    /\ CbCount(m) <= 1
    /\ \A i \in DOMAIN hist[m] :
         /\ hist[m][i].e \in ExecKinds =>
              IF callbackSet
                THEN /\ i < Len(hist[m])
                     /\ hist[m][i + 1] = [hist[m][i] EXCEPT !.e = CbKind[ErrOf(@)]]
                ELSE CbCount(m) = 0
         /\ IsCb(hist[m][i]) => callbackSet /\ i > 1 /\ hist[m][i - 1].e \in ExecKinds
         /\ (callbackSet /\ (IsSend(hist[m][i]) \/ IsDelete(hist[m][i])))
              => \E k \in 1..(i - 1) : IsCb(hist[m][k])
    /\ LET h == SelectSeq(hist[m], NotCb)
       IN  \A i \in DOMAIN h :
             /\ h[i].e \in {"HandlerError", "HandlerTimeout"} => i = Len(h)
             /\ (h[i].e = "ok" /\ i < Len(h)) => IsSend(h[i + 1])

\* C16: with a Callback configured, every message a consumer receives gets one call
\* of the Callback, with the result and error of its Exec, before any forward or
\* acknowledge, and the forward/acknowledge decisions do not depend on the Callback.
C16_CallbackOncePerMessage ==
  /\ []CallbackSafe
  /\ \A m \in 1..MaxDeq : (callbackSet /\ Has(m, "recv")) ~> (~Alive \/ CbCount(m) = 1)

\* C20: no stale fire. While Exec waits in its select, the timer runs from the Reset of
\* this Exec, so a value it finds in Timer.C was put there after that Reset; a value
\* left from before was received before Reset.
C20_NoStaleFire ==
  \A w \in Workers : pc[w] = "wait" => (armed[w] # "stale" /\ timer[w] \in {"running", "fired"})

\* C20 witness: an Exec received a left-over value before its Reset, and its own timer
\* has expired since
C20_Witness ==
  \E w \in Workers : pc[w] = "wait" /\ armed[w] = "drained" /\ timer[w] = "fired"

\* C21: the message a consumer passes to Exec, and Exec to the Handler, is one the
\* producer received from the queue and sent on the channel, never nil.
C21_NoNilToHandler ==
  \A w \in Workers :
    /\ pc[w] \in {"exec", "wait"} => msg[w] # NilMsg
    /\ \A i \in DOMAIN handlers[w] : handlers[w][i].m # NilMsg

\* the calls of w.Handler that have started and not returned, those of an Exec that
\* has timed out included
RunningHandlers ==
  UNION {{<<w, i>> : i \in {j \in DOMAIN handlers[w] : handlers[w][j].st = "running"}} :
           w \in Workers}

\* C22: at most Consumers calls of the Handler are running at any time.
C22_HandlerBound ==
  Cardinality(RunningHandlers) <= Consumers

\* C22 witness: every consumer has a call of the Handler running, and one of these
\* calls belongs to an Exec that has timed out
C22_Witness ==
  /\ Cardinality(RunningHandlers) = Consumers
  /\ \E w \in Workers : pc[w] # "wait" /\ \E i \in DOMAIN handlers[w] : handlers[w][i].st = "running"

====
